---- MODULE Spec2Model ----
(***************************************************************************)
(* Model of the two scripts of the logic-node documentation tooling:       *)
(*   logic_nodes/_introduction/make_socket_svgs.py  (main)                 *)
(*   logic_nodes/make_screenshots.py                (take_screenshot, run) *)
(* Text is modelled as a sequence of one-character strings, a file as a    *)
(* record [exists, data], and the file system as a function from paths to  *)
(* files.                                                                  *)
(***************************************************************************)
EXTENDS Integers, Sequences, FiniteSets, TLC

VARIABLES
    fs,            \* working directory of make_socket_svgs: path -> file
    pc,            \* position of main(): start, loop, opened, done, error
    idx,           \* number of COLORS entries whose with-block has completed
    template_str,  \* the local variable template_str of main()
    err,           \* which call raised: none, read, open, write
    run,           \* how many times main() has been started
    order,         \* the order in which COLORS.items() yields the entries
    ioFaulty,      \* whether the environment may fail an I/O call
    fsStart,       \* history: fs when the current run of main() started
    oplog,         \* history: the open()/write() calls of the current run
    firstRun,      \* history: fs and template_str at the end of the first successful run
    spc,           \* position of run()/take_screenshot(): entry, idle, placed, measured, removed, saved, returned, finished
    nodes,         \* editor.node_tree.nodes, as the set of node ids in the tree
    nodesBefore,   \* history: nodes when the current take_screenshot call started
    WARNINGS,      \* the module-level list WARNINGS
    disk,          \* the screenshot files on disk (set of paths)
    shot,          \* the arguments and locals of the current take_screenshot call
    calls,         \* number of take_screenshot calls made by run()
    host           \* the host application: background flag, area height, view origin

svgVars == <<fs, pc, idx, template_str, err, run, order, ioFaulty, fsStart, oplog, firstRun>>
shotVars == <<spc, nodes, nodesBefore, WARNINGS, disk, shot, calls, host>>
vars == <<fs, pc, idx, template_str, err, run, order, ioFaulty, fsStart, oplog, firstRun,
          spc, nodes, nodesBefore, WARNINGS, disk, shot, calls, host>>

\* ------------------------------------------------------------------ bounds
MaxChunks == 2
MaxRuns == 2

\* ------------------------------------------------------- make_socket_svgs
COLORS ==
    [ action    |-> <<"c","c","4","c","4","c">>,
      animation |-> <<"c","c","c","c","c","c">>,
      array     |-> <<"c","c","6","6","0","0">>,
      bool      |-> <<"c","c","a","6","d","6">>,
      color     |-> <<"c","7","c","7","2","9">>,
      dynamic   |-> <<"6","3","c","7","6","3">>,
      float     |-> <<"a","1","a","1","a","1">>,
      integer   |-> <<"0","f","8","5","2","6">>,
      object    |-> <<"2","6","8","c","b","f">>,
      string    |-> <<"7","0","b","2","f","f">>,
      vector    |-> <<"6","3","6","3","c","7">> ]

\* insertion order of the dict literal
Keys ==
    <<"action", "animation", "array", "bool", "color", "dynamic",
      "float", "integer", "object", "string", "vector">>

NumColors == Len(Keys)

Reverse(s) == [i \in 1..Len(s) |-> s[Len(s) + 1 - i]]

Rotate(s) == [i \in 1..Len(s) |-> s[(i % Len(s)) + 1]]

\* orders in which a dict may hand out its items
Orders == {Keys, Reverse(Keys), Rotate(Keys)}

\* the literal "fill:#cc4c4c;"
Marker == <<"f","i","l","l",":","#","c","c","4","c","4","c",";">>

\* the f-string f"fill:#{color};"
Fill(color) == <<"f","i","l","l",":","#">> \o color \o <<";">>

TemplatePath == "sockettype_template.svg"

OutPathShared(socket_type) == "sockettype_" \o ".svg"

OutPathCollide(socket_type) ==
    IF socket_type = "vector" THEN "sockettype_action.svg"
    ELSE "sockettype_" \o socket_type \o ".svg"

OutPathTemplate(socket_type) ==
    IF socket_type = "bool" THEN TemplatePath ELSE "sockettype_" \o socket_type \o ".svg"

\* the f-string f"sockettype_{socket_type}.svg"
OutPath(socket_type) == "sockettype_" \o socket_type \o ".svg"

OutPaths == {OutPath(n) : n \in DOMAIN COLORS}

Paths == {TemplatePath} \cup OutPaths

Missing == [exists |-> FALSE, data |-> <<>>]

File(data) == [exists |-> TRUE, data |-> data]

StartsWithUnbounded(s, i, old) ==
    \A k \in 1..Len(old) : i + k - 1 <= Len(s) => s[i + k - 1] = old[k]

\* s[i:i+len(old)] == old
StartsWith(s, i, old) ==
    /\ i + Len(old) - 1 <= Len(s)
    /\ \A k \in 1..Len(old) : s[i + k - 1] = old[k]

RECURSIVE ReplaceFrom(_, _, _, _)
ReplaceFrom(s, i, old, new) ==
    IF i > Len(s) THEN <<>>
    ELSE IF StartsWith(s, i, old)
         THEN new \o ReplaceFrom(s, i + Len(old), old, new)
         ELSE <<s[i]>> \o ReplaceFrom(s, i + 1, old, new)

RECURSIVE ReplaceFirstFrom(_, _, _, _)
ReplaceFirstFrom(s, i, old, new) ==
    IF i > Len(s) THEN <<>>
    ELSE IF StartsWith(s, i, old)
         THEN new \o SubSeq(s, i + Len(old), Len(s))
         ELSE <<s[i]>> \o ReplaceFirstFrom(s, i + 1, old, new)

ReplaceFirst(s, old, new) == ReplaceFirstFrom(s, 1, old, new)

\* str.replace(old, new) for a non-empty old: left to right, non-overlapping
Replace(s, old, new) == ReplaceFrom(s, 1, old, new)

ColorizeOneColor(tpl, socket_type) == Replace(tpl, Marker, Fill(COLORS["bool"]))

\* the argument of f.write for one entry
Colorize(tpl, socket_type) == Replace(tpl, Marker, Fill(COLORS[socket_type]))

OpenA(file) == IF file.exists THEN file ELSE File(<<>>)

\* open(path, "w"): create the file or truncate it
OpenW(file) == File(<<>>)

\* f.write(s) on a file opened by OpenW, followed by close
WriteData(file, s) == File(file.data \o s)

\* pieces a template is assembled from
Chunks ==
    { Marker,
      Fill(COLORS["animation"]),
      <<"<","f","i","l","l",":","#","c","c">> }

RECURSIVE Templates(_)
Templates(n) ==
    IF n = 0 THEN {<<>>}
    ELSE LET shorter == Templates(n - 1)
         IN shorter \cup {t \o c : t \in shorter, c \in Chunks}

Stale == <<"o","l","d">>

\* directory contents main() may find
InitialDirs ==
    { [p \in Paths |-> IF p = TemplatePath THEN t
                       ELSE IF p \in pre THEN File(Stale) ELSE Missing] :
        t \in {File(x) : x \in Templates(MaxChunks)} \cup {Missing},
        pre \in {{}, OutPaths, {OutPath("action"), OutPath("vector")}} }

NoRun == [done |-> FALSE, fs |-> <<>>, tpl |-> <<>>]

NoShot == [file_path |-> <<>>, nodetype |-> "", node |-> 0, location |-> <<0, 0>>,
           dimensions |-> <<0, 0>>, box |-> <<0, 0, 0, 0>>, warned |-> 0, saved |-> FALSE]

NoHost == [background |-> TRUE, height |-> 0, origin |-> <<0, 0>>]

InitShotIdle ==
    /\ spc = "off"
    /\ nodes = {}
    /\ nodesBefore = {}
    /\ WARNINGS = <<>>
    /\ disk = {}
    /\ shot = NoShot
    /\ calls = 0
    /\ host = NoHost

Init ==
    /\ fs \in InitialDirs
    /\ pc = "start"
    /\ idx = 0
    /\ template_str = <<>>
    /\ err = "none"
    /\ run = 1
    /\ order \in Orders
    /\ ioFaulty \in BOOLEAN
    /\ fsStart = fs
    /\ oplog = <<>>
    /\ firstRun = NoRun
    /\ InitShotIdle

\* lines 22-24 as a function: the directory after the entries o[k..] are processed
RECURSIVE FinalDir(_, _, _, _)
FinalDir(dir, tpl, o, k) ==
    IF k > Len(o) THEN dir
    ELSE FinalDir([dir EXCEPT ![OutPath(o[k])] = WriteData(OpenW(@), Colorize(tpl, o[k]))],
                  tpl, o, k + 1)

\* entry the loop is at (1-based position idx + 1 of the iteration)
socket_type == order[idx + 1]

Raise(kind) ==
    /\ pc' = "error"
    /\ err' = kind

ReadTemplateLenient ==
    /\ pc = "start"
    /\ template_str' = fs[TemplatePath].data
    /\ oplog' = Append(oplog, <<"r", TemplatePath>>)
    /\ pc' = "loop"
    /\ idx' = 0
    /\ UNCHANGED <<fs, err, run, order, ioFaulty, fsStart, firstRun>>

\* line 19-20: open the template for reading and read it
ReadTemplate ==
    /\ pc = "start"
    /\ fs[TemplatePath].exists
    /\ template_str' = fs[TemplatePath].data
    /\ oplog' = Append(oplog, <<"r", TemplatePath>>)
    /\ pc' = "loop"
    /\ idx' = 0
    /\ UNCHANGED <<fs, err, run, order, ioFaulty, fsStart, firstRun>>

\* line 19-20: open() or read() raises
ReadTemplateFail ==
    /\ pc = "start"
    /\ ~fs[TemplatePath].exists \/ ioFaulty
    /\ oplog' = Append(oplog, <<"r", TemplatePath>>)
    /\ Raise("read")
    /\ UNCHANGED <<fs, idx, template_str, run, order, ioFaulty, fsStart, firstRun>>

\* line 23: open the entry's file for writing
OpenOutput ==
    /\ pc = "loop"
    /\ idx < NumColors
    /\ fs' = [fs EXCEPT ![OutPath(socket_type)] = OpenW(@)]
    /\ oplog' = Append(oplog, <<"w", OutPath(socket_type)>>)
    /\ pc' = "opened"
    /\ UNCHANGED <<idx, template_str, err, run, order, ioFaulty, fsStart, firstRun>>

\* line 23: open() raises, nothing is created or truncated
OpenOutputFail ==
    /\ pc = "loop"
    /\ idx < NumColors
    /\ ioFaulty
    /\ Raise("open")
    /\ UNCHANGED <<fs, idx, template_str, run, order, ioFaulty, fsStart, oplog, firstRun>>

\* line 24: write the colorized template, leave the with-block, next entry
WriteOutput ==
    /\ pc = "opened"
    /\ fs' = [fs EXCEPT ![OutPath(socket_type)] = WriteData(@, Colorize(template_str, socket_type))]
    /\ oplog' = Append(oplog, <<"write", OutPath(socket_type)>>)
    /\ idx' = idx + 1
    /\ pc' = "loop"
    /\ UNCHANGED <<template_str, err, run, order, ioFaulty, fsStart, firstRun>>

WriteOutputFailSkip ==
    /\ pc = "opened"
    /\ ioFaulty
    /\ err' = "write"
    /\ idx' = idx + 1
    /\ pc' = "loop"
    /\ UNCHANGED <<fs, template_str, run, order, ioFaulty, fsStart, oplog, firstRun>>

\* line 24: write() or the closing flush raises; some prefix (possibly all) reached the file
WriteOutputFail ==
    /\ pc = "opened"
    /\ ioFaulty
    /\ \E n \in 0..Len(Colorize(template_str, socket_type)) :
          fs' = [fs EXCEPT ![OutPath(socket_type)] =
                    WriteData(@, SubSeq(Colorize(template_str, socket_type), 1, n))]
    /\ Raise("write")
    /\ UNCHANGED <<idx, template_str, run, order, ioFaulty, fsStart, oplog, firstRun>>

\* line 22: COLORS.items() is exhausted, main() returns
Finish ==
    /\ pc = "loop"
    /\ idx = NumColors
    /\ pc' = "done"
    /\ firstRun' = IF firstRun.done THEN firstRun
                   ELSE [done |-> TRUE, fs |-> fs, tpl |-> template_str]
    /\ UNCHANGED <<fs, idx, template_str, err, run, order, ioFaulty, fsStart, oplog>>

\* line 27-28: the script is started again after a successful run
Rerun ==
    /\ pc = "done"
    /\ run < MaxRuns
    /\ run' = run + 1
    /\ pc' = "start"
    /\ idx' = 0
    /\ template_str' = <<>>
    /\ fsStart' = fs
    /\ oplog' = <<>>
    /\ \E o \in Orders : order' = o
    /\ UNCHANGED <<fs, err, ioFaulty, firstRun>>

Next ==
    \/ ReadTemplate /\ UNCHANGED shotVars
    \/ ReadTemplateFail /\ UNCHANGED shotVars
    \/ OpenOutput /\ UNCHANGED shotVars
    \/ OpenOutputFail /\ UNCHANGED shotVars
    \/ WriteOutput /\ UNCHANGED shotVars
    \/ WriteOutputFail /\ UNCHANGED shotVars
    \/ Finish /\ UNCHANGED shotVars
    \/ Rerun /\ UNCHANGED shotVars

Spec == Init /\ [][Next]_vars

\* ------------------------------------------------- properties of main()
\* pat occurs in s at position i
Occurs(s, i, pat) ==
    /\ i >= 1
    /\ i + Len(pat) - 1 <= Len(s)
    /\ SubSeq(s, i, i + Len(pat) - 1) = pat

NumOccurrences(s, pat) == Cardinality({i \in 1..Len(s) : Occurs(s, i, pat)})

\* tpl with the text of every marker occurrence overwritten by fill:#<color>;
\* and every other position left as it is (marker occurrences cannot overlap)
Substituted(tpl, color) ==
    LET starts == {j \in 1..Len(tpl) : Occurs(tpl, j, Marker)}
        new == Fill(color)
    IN [i \in 1..Len(tpl) |->
           LET covering == {j \in starts : j <= i /\ i < j + Len(Marker)}
           IN IF covering = {} THEN tpl[i]
              ELSE new[i - (CHOOSE j \in covering : TRUE) + 1]]

\* the template file as main() found it
TemplateText == fsStart[TemplatePath].data

\* paths given to open(..., "w") so far in this run
OpenedForWriting == {oplog[i][2] : i \in {k \in 1..Len(oplog) : oplog[k][1] = "w"}}

\* paths whose write completed so far in this run
Written == {oplog[i][2] : i \in {k \in 1..Len(oplog) : oplog[k][1] = "write"}}

NumWrites(p) == Cardinality({k \in 1..Len(oplog) : oplog[k] = <<"write", p>>})

\* C1: after a successful run every sockettype_<name>.svg exists and holds the
\* template with each occurrence of fill:#cc4c4c; (one or several) replaced by
\* fill:#<color>; and all other text unchanged.
C1_OutputsAreSubstitutedTemplate ==
    pc = "done" =>
        \A n \in DOMAIN COLORS :
            /\ fs[OutPath(n)].exists
            /\ fs[OutPath(n)].data = Substituted(TemplateText, COLORS[n])

C1_Witness ==
    /\ pc = "done"
    /\ NumOccurrences(TemplateText, Marker) = 2
    /\ fs[OutPath("bool")].data = Fill(COLORS["bool"]) \o Fill(COLORS["bool"])
    /\ fsStart[OutPath("bool")] = File(Stale)

\* C2 as stated: replacing fill:#<color>; back by fill:#cc4c4c; in any output
\* file reproduces the template, whatever the template contains.
C2_RoundTripAnyTemplate ==
    pc = "done" =>
        \A n \in DOMAIN COLORS :
            Replace(fs[OutPath(n)].data, Fill(COLORS[n]), Marker) = TemplateText

\* C2 amended: the round trip reproduces the template for every entry whose
\* fill:#<color>; does not already occur in the template, and for the entry
\* whose color is the marker color cc4c4c.
C2_RoundTripFreshColor ==
    pc = "done" =>
        \A n \in DOMAIN COLORS :
            (Fill(COLORS[n]) = Marker \/ NumOccurrences(TemplateText, Fill(COLORS[n])) = 0)
                => Replace(fs[OutPath(n)].data, Fill(COLORS[n]), Marker) = TemplateText

C2_Witness ==
    /\ pc = "done"
    /\ NumOccurrences(TemplateText, Marker) >= 1
    /\ NumOccurrences(TemplateText, Fill(COLORS["animation"])) >= 1
    /\ fs[OutPath("vector")].data # TemplateText
    /\ Replace(fs[OutPath("vector")].data, Fill(COLORS["vector"]), Marker) = TemplateText

\* C3: when opening or writing an output file fails the run aborts at that
\* entry: the files of the earlier entries keep the content this run gave them
\* and the files of the later entries are as they were before the run.
C3_WriteFailureAborts ==
    err \in {"open", "write"} =>
        /\ pc = "error"
        /\ \A k \in 1..idx :
              fs[OutPath(order[k])] = File(Substituted(TemplateText, COLORS[order[k]]))
        /\ \A k \in (idx + 2)..NumColors :
              fs[OutPath(order[k])] = fsStart[OutPath(order[k])]
        /\ OpenedForWriting \subseteq {OutPath(order[k]) : k \in 1..(idx + 1)}

C3_Witness ==
    /\ pc = "error"
    /\ err = "write"
    /\ idx = 3
    /\ NumOccurrences(TemplateText, Marker) >= 1
    /\ fsStart[OutPath("vector")] = File(Stale)

\* C4: with a template that contains the marker zero times and an environment
\* in which no I/O call fails, main() does not end in an error and every
\* output file it leaves is identical to the template.
C4_NoMarkerIsCopy ==
    (/\ ~ioFaulty
     /\ fsStart[TemplatePath].exists
     /\ NumOccurrences(TemplateText, Marker) = 0)
        => /\ pc # "error"
           /\ pc = "done" => \A n \in DOMAIN COLORS : fs[OutPath(n)] = File(TemplateText)

C4_Witness ==
    /\ pc = "done"
    /\ ~ioFaulty
    /\ NumOccurrences(TemplateText, Marker) = 0
    /\ Len(TemplateText) > Len(Marker)
    /\ \A n \in DOMAIN COLORS : fs[OutPath(n)] = File(TemplateText)

\* C5: at every point of a run the number of output files written so far
\* equals the number of entries processed so far; a successful run has written
\* exactly the 11 pairwise distinct files sockettype_<name>.svg, each once, and
\* changed no other file.
C5_CountInvariant ==
    pc \in {"start", "loop", "opened", "done", "error"} =>
        /\ Cardinality(Written) = idx
        /\ pc = "done" =>
              /\ Cardinality(Written) = 11
              /\ Written = {OutPath(n) : n \in DOMAIN COLORS}
              /\ \A p \in Written : NumWrites(p) = 1
              /\ \A p \in DOMAIN fs : fs[p] # fsStart[p] => p \in Written

C5_Witness ==
    /\ pc = "done"
    /\ Cardinality(Written) = 11
    /\ Cardinality({p \in DOMAIN fs : fs[p] # fsStart[p]}) = 11

\* C6: a second run with an unchanged template leaves every output file as the
\* first run left it, whatever the directory held before the first run, and
\* reads the same template text as the first run did.
C6_Idempotent ==
    (firstRun.done /\ run >= 2) =>
        /\ pc \in {"loop", "opened", "done"} => template_str = firstRun.tpl
        /\ pc = "done" => fs = firstRun.fs

C6_Witness ==
    /\ run = 2
    /\ pc = "done"
    /\ firstRun.done
    /\ NumOccurrences(firstRun.tpl, Marker) >= 1
    /\ fs[OutPath("float")].data = Substituted(firstRun.tpl, COLORS["float"])

\* C7: in every state of a run, successful or failed, the template file has
\* the content it had when the run started: no output path is the template
\* path and the template path is only ever opened for reading.
C7_TemplateUntouched ==
    /\ fs[TemplatePath] = fsStart[TemplatePath]
    /\ \A n \in DOMAIN COLORS : OutPath(n) # TemplatePath
    /\ \A k \in 1..Len(oplog) : oplog[k][2] = TemplatePath => oplog[k][1] = "r"

C7_Witness ==
    /\ pc = "error"
    /\ err = "write"
    /\ idx = 5
    /\ fs[TemplatePath].exists
    /\ Len(fs[TemplatePath].data) > 0

C9_TemplateReadFirst ==
    /\ \A k \in 1..Len(oplog) : (oplog[k][1] = "r") <=> (k = 1)
    /\ (pc # "start" /\ ~fsStart[TemplatePath].exists) => err = "read"
    /\ err = "read" =>
          /\ pc = "error"
          /\ fs = fsStart
          /\ OpenedForWriting = {}

C9_Witness ==
    /\ pc = "error"
    /\ err = "read"
    /\ ~fs[TemplatePath].exists
    /\ fs[OutPath("action")] = File(Stale)

\* ------------------------------------------------------- make_screenshots
GRID_SIZE == 20

MARGIN == 20

\* (category name, nodetype) pairs handed out by arm_nodes.get_all_categories()
NodeItems ==
    << <<"logic", "LNGateNode">>, <<"logic", "LNMergeNode">>,
       <<"math", "LNMathNode">>, <<"math", "LNVectorNode">> >>

\* node.dimensions the host may report after the forced redraw
NodeDimensions == {<<140, 60>>, <<140, 130>>, <<200, 500>>, <<200, 570>>}

AreaHeights == {400, 600}

ViewOrigins == {<<0, 0>>, <<10, 300>>}

\* os.path.join(category_path, nodeitem.nodetype + ".png")
PngPath(item) == <<item[1], item[2], ".png">>

JpgPathSame(file_path) == file_path

\* os.path.splitext(file_path)[0] + ".jpg"
JpgPath(file_path) == <<file_path[1], file_path[2], ".jpg">>

\* view2d.view_to_region(x, y): view coordinates to pixels of the region
ViewToRegion(x, y) == <<x + host.origin[1], y + host.origin[2]>>

\* lines 77-86: the crop box (left, top, right, bottom) of the node
CropBox(location, dimensions) ==
    LET lt == ViewToRegion(location[1], location[2])
        rb == ViewToRegion(location[1] + dimensions[1], location[2] - dimensions[2])
    IN <<lt[1] - MARGIN,
         (host.height - lt[2]) - MARGIN,
         rb[1] + MARGIN,
         (host.height - rb[2]) + MARGIN>>

\* line 89: bottom - top > bpy.context.area.height
TooBig(box) == box[4] - box[2] > host.height

InitSvgIdle ==
    /\ fs = [p \in Paths |-> Missing]
    /\ pc = "off"
    /\ idx = 0
    /\ template_str = <<>>
    /\ err = "none"
    /\ run = 0
    /\ order = Keys
    /\ ioFaulty = FALSE
    /\ fsStart = fs
    /\ oplog = <<>>
    /\ firstRun = NoRun

InitShot ==
    /\ InitSvgIdle
    /\ spc = "entry"
    /\ nodes = {}
    /\ nodesBefore = {}
    /\ WARNINGS = <<>>
    /\ disk \in {{}, {JpgPath(PngPath(NodeItems[1]))}, {PngPath(NodeItems[2])}}
    /\ shot = NoShot
    /\ calls = 0
    /\ host \in [background : BOOLEAN, height : AreaHeights, origin : ViewOrigins]

\* lines 111-113: no UI when running windowless
RunBackground ==
    /\ spc = "entry"
    /\ host.background
    /\ spc' = "finished"
    /\ UNCHANGED <<nodes, nodesBefore, WARNINGS, disk, shot, calls, host>>

\* lines 115-146: reset the theme, create the node tree, set up the view
RunSetup ==
    /\ spc = "entry"
    /\ ~host.background
    /\ nodes' = {}
    /\ spc' = "idle"
    /\ UNCHANGED <<nodesBefore, WARNINGS, disk, shot, calls, host>>

\* lines 155-157 and 52-68: call take_screenshot, create and place the node
PlaceNode ==
    /\ spc \in {"idle", "returned"}
    /\ calls < Len(NodeItems)
    /\ \E d \in NodeDimensions :
          shot' = [file_path |-> PngPath(NodeItems[calls + 1]),
                   nodetype |-> NodeItems[calls + 1][2],
                   node |-> calls + 1,
                   location |-> <<0, 0 + (d[2] + (d[2] % GRID_SIZE))>>,
                   dimensions |-> d,
                   box |-> <<0, 0, 0, 0>>,
                   warned |-> Len(WARNINGS),
                   saved |-> FALSE]
    /\ nodesBefore' = nodes
    /\ nodes' = nodes \cup {calls + 1}
    /\ calls' = calls + 1
    /\ spc' = "placed"
    /\ UNCHANGED <<WARNINGS, disk, host>>

\* lines 71-86: screenshot of the area to file_path, compute the crop box
Screenshot ==
    /\ spc = "placed"
    /\ disk' = disk \cup {shot.file_path}
    /\ shot' = [shot EXCEPT !.box = CropBox(shot.location, shot.dimensions)]
    /\ spc' = "measured"
    /\ UNCHANGED <<nodes, nodesBefore, WARNINGS, calls, host>>

\* lines 89-92: the node is too big, warn later, remove the node, return
WarnTooBig ==
    /\ spc = "measured"
    /\ TooBig(shot.box)
    /\ WARNINGS' = Append(WARNINGS, shot.nodetype)
    /\ nodes' = nodes \ {shot.node}
    /\ spc' = "returned"
    /\ UNCHANGED <<nodesBefore, disk, shot, calls, host>>

\* line 94: the node fits, remove it
RemoveNode ==
    /\ spc = "measured"
    /\ ~TooBig(shot.box)
    /\ nodes' = nodes \ {shot.node}
    /\ spc' = "removed"
    /\ UNCHANGED <<nodesBefore, WARNINGS, disk, shot, calls, host>>

\* lines 97-103: crop, scale down, save as JPEG next to file_path
CropAndSave ==
    /\ spc = "removed"
    /\ shot.file_path \in disk
    /\ disk' = disk \cup {JpgPath(shot.file_path)}
    /\ shot' = [shot EXCEPT !.saved = TRUE]
    /\ spc' = "saved"
    /\ UNCHANGED <<nodes, nodesBefore, WARNINGS, calls, host>>

\* line 106: delete the original .png screenshot, return
DeletePng ==
    /\ spc = "saved"
    /\ disk' = disk \ {shot.file_path}
    /\ spc' = "returned"
    /\ UNCHANGED <<nodes, nodesBefore, WARNINGS, shot, calls, host>>

\* lines 159-165: all node items done, remove the node tree, print the warnings
RunFinish ==
    /\ spc \in {"idle", "returned"}
    /\ calls = Len(NodeItems)
    /\ nodes' = {}
    /\ spc' = "finished"
    /\ UNCHANGED <<nodesBefore, WARNINGS, disk, shot, calls, host>>

NextShot ==
    \/ RunBackground /\ UNCHANGED svgVars
    \/ RunSetup /\ UNCHANGED svgVars
    \/ PlaceNode /\ UNCHANGED svgVars
    \/ Screenshot /\ UNCHANGED svgVars
    \/ WarnTooBig /\ UNCHANGED svgVars
    \/ RemoveNode /\ UNCHANGED svgVars
    \/ CropAndSave /\ UNCHANGED svgVars
    \/ DeletePng /\ UNCHANGED svgVars
    \/ RunFinish /\ UNCHANGED svgVars

SpecShot == InitShot /\ [][NextShot]_vars

\* ---------------------------------------- properties of take_screenshot()
\* C10: after every call of take_screenshot that returns, the node it created
\* is gone from the tree, exactly one of (a) too tall: nodetype appended to
\* WARNINGS, no .jpg produced, and (b) not appended, .jpg written, holds, and
\* in both outcomes no .png is left at file_path.
C10_NoPngLeftBehind ==
    spc = "returned" =>
        /\ nodes = nodesBefore
        /\ \/ /\ TooBig(shot.box)
              /\ WARNINGS = SubSeq(WARNINGS, 1, shot.warned) \o <<shot.nodetype>>
              /\ ~shot.saved
           \/ /\ ~TooBig(shot.box)
              /\ Len(WARNINGS) = shot.warned
              /\ shot.saved
              /\ JpgPath(shot.file_path) \in disk
        /\ shot.file_path \notin disk

====
